---- MODULE Spec2Model ----
(***************************************************************************)
(* State engine of the northstar container runtime                         *)
(* (northstar/src/runtime/state.rs) together with the part of the launcher *)
(* (northstar/src/runtime/island/mod.rs) the engine drives: the container  *)
(* map, the repositories, the child processes with their wait tasks, the   *)
(* cgroup and debug handles and the bounded event queue of the main loop.  *)
(***************************************************************************)
EXTENDS Integers, Sequences, FiniteSets, TLC

(* ---- bounds of the model ---------------------------------------------- *)
\* number of child processes the launcher may clone in one behaviour
MaxPid == 2
\* capacity of the bounded event channel (EventTx)
QueueCap == 3
\* number of mounts of run_dir that have no entry in the container map
MaxStray == 1
\* number of tasks that call the methods of one Client
MaxCallers == 2
\* length of the strings a message carries
MaxLen == 2

(* ---- packages ---------------------------------------------------------- *)
\* Container identities (name, version) of the packages that exist
Container == {"app", "res"}
\* repositories of the configuration, and a label that is not configured
RepositoryId == {"r1", "r2"}
UnknownRepository == "r0"

\* npk::manifest::Manifest: init (None for a resource container), the
\* Mount::Resource entries of the mount table, the optional cgroups section
Manifest ==
  [c \in Container |->
     IF c = "app"
     THEN [init |-> TRUE, mounts |-> {"res"}, cgroups |-> TRUE]
     ELSE [init |-> FALSE, mounts |-> {}, cgroups |-> FALSE]]

\* Offset for signal as exit code encoding
SIGNAL_OFFSET == 128

\* the signal numbers nix::sys::signal::Signal::try_from accepts (SIGHUP ..
\* SIGSYS)
Signal == 1..31
SIGKILL == 9
SIGTERM == 15

\* what waitpid reports of a child: WaitStatus::Exited(pid, code) or
\* WaitStatus::Signaled(pid, signal, _)
Exited(code) == [kind |-> "Exited", n |-> code]
Signaled(sig) == [kind |-> "Signaled", n |-> sig]

\* the statuses the children of the model end with
WaitStatus == {Exited(0), Exited(SIGNAL_OFFSET + SIGKILL), Exited(255), Signaled(SIGKILL)}

\* stages of State::start after the mounts at which a failure can be injected
Stages == {"none", "create", "debug", "cgroup", "assign", "start", "destroy"}

VARIABLES
  engine,        \* "running" | "panicked" | "blocked" | "error" | "stopped"
  repositories,  \* State.repositories: RepositoryId -> set of Container
  containers,    \* State.containers: HashMap<Container, MountedContainer>
  run_dir,       \* number of kernel mounts stacked on config.run_dir/<container>
  alive,         \* child processes (<<container, pid>>) that have not exited
  reaped,        \* wait tasks past waitpid that have not sent Event::Exit: the
                 \* child and the status the task holds (Panicked: the task died)
  cgroups,       \* pids with a created, not yet destroyed CGroups handle
  debugs,        \* pids with a created, not yet destroyed Debug handle
  events,        \* the event channel read by the main loop
  next_pid,      \* next pid handed out by clone
  last,          \* the handler that has run: operation, argument, response, failed
                 \* stage, notifications, and what was mounted and started before
  client,        \* api::client::Client: the connection task, its channels, the
                 \* connection to the runtime and the callers of its requests
  codec,         \* api::codec::Codec with the message it is given, the bytes of
                 \* the buffer and the decoded item
  island         \* one child of the launcher: its handle, the checkpoint pipes,
                 \* the signals it was sent and its wait task

\* the state of the runtime, and the state of the client library
runtime == <<engine, repositories, containers, run_dir, alive, reaped, cgroups,
             debugs, events, next_pid, last>>
api == <<client, codec>>

vars == <<runtime, api, island>>

\* the engine state as one value, threaded through the handlers; notes
\* collects the notifications the running handler has emitted
State ==
  [engine |-> engine, repositories |-> repositories, containers |-> containers,
   run_dir |-> run_dir, alive |-> alive, reaped |-> reaped, cgroups |-> cgroups,
   debugs |-> debugs, events |-> events, next_pid |-> next_pid, notes |-> <<>>]

\* result of a handler: state, response, the stage that failed, the
\* (container, result) entries a Response::Mount carries, and whether the
\* response reached the session
Ret(s, res, fail) ==
  [s |-> s, res |-> res, fail |-> fail, entries |-> {}, delivered |-> FALSE]

\* a panic (expect/unwrap on an Err) ends the engine
panic(s) == [s EXCEPT !.engine = "panicked"]

\* a send of the response that unwraps the error of a closed channel
respond_unwrap(r, closed) ==
  IF r.res = "none" THEN r
  ELSE IF closed THEN [r EXCEPT !.s = panic(@)]
  ELSE [r EXCEPT !.delivered = TRUE]

\* response_tx.send(response).ok(): the response of a handler that has one
\* is sent; closed: the session has dropped its end of the reply channel and
\* the error of the send is ignored
respond(r, closed) ==
  IF r.res = "none" THEN r ELSE [r EXCEPT !.delivered = ~closed]


\* HashMap::insert / HashMap::remove
insert(m, c, e) == [x \in (DOMAIN m) \cup {c} |-> IF x = c THEN e ELSE m[x]]
remove(m, c) == [x \in (DOMAIN m) \ {c} |-> m[x]]

\* a lookup that finds every container
npk_any(s, c) == RepositoryId

\* State::npk: the repositories that hold the container (empty: None)
npk(s, c) == {r \in RepositoryId : c \in s.repositories[r]}

\* State::notification: events_tx.send(Event::Notification(n)).await; the
\* send waits for a free slot of the channel that only the main loop drains
notification(s, n) ==
  IF Len(s.events) < QueueCap
  THEN [s EXCEPT !.events = Append(@, [k |-> "Notification"]),
                 !.notes = Append(@, n)]
  ELSE [s EXCEPT !.engine = "blocked"]

\* State::mount for every container of ok: the mount manager mounted the
\* package on run_dir/<container>; the MountedContainer has process: None
MountedContainer(s, c) == [device |-> s.run_dir[c] + 1, process |-> {}]

mount_ok(s, ok) ==
  [s EXCEPT !.run_dir = [c \in Container |-> IF c \in ok THEN @[c] + 1 ELSE @[c]]]

\* for (container, mounted_container) in ok { self.containers.insert(..) }
insert_all(s, s0, ok) ==
  [s EXCEPT !.containers =
     [x \in (DOMAIN @) \cup ok |-> IF x \in ok THEN MountedContainer(s0, x) ELSE @[x]]]


(* ---- State::umount ------------------------------------------------------ *)
\* a busy check that finds no user of the resource
resource_idle(s, c) == FALSE

\* the busy check of umount: some started container names c as a resource
\* in its mount table
resource_busy(s, c) ==
  \E x \in DOMAIN s.containers :
     s.containers[x].process # {} /\ c \in Manifest[x].mounts

\* umount that leaves the entry in the container map
umount_keep(s, c, ufail) ==
  IF c \notin DOMAIN s.containers THEN Ret(s, "UmountBusy", "none")
  ELSE IF s.containers[c].process # {} THEN Ret(s, "UmountBusy", "none")
  ELSE IF ufail THEN Ret(panic(s), "none", "umount")
  ELSE Ret([s EXCEPT !.run_dir[c] = @ - 1], "Ok", "none")

\* umount without the check for a started container
umount_started(s, c, ufail) ==
  IF c \notin DOMAIN s.containers THEN Ret(s, "UmountBusy", "none")
  ELSE IF ufail THEN Ret(panic(s), "none", "umount")
  ELSE Ret([s EXCEPT !.run_dir[c] = @ - 1, !.containers = remove(@, c)],
           "Ok", "none")

\* ufail: mount_control.umount returns an error (expect("Failed to umount"))
umount(s, c, ufail) ==
  IF c \notin DOMAIN s.containers THEN Ret(s, "UmountBusy", "none")
  ELSE IF s.containers[c].process # {} THEN Ret(s, "UmountBusy", "none")
  ELSE IF ~Manifest[c].init /\ resource_busy(s, c) THEN Ret(s, "UmountBusy", "none")
  ELSE IF ufail THEN Ret(panic(s), "none", "umount")
  ELSE Ret([s EXCEPT !.run_dir[c] = @ - 1, !.containers = remove(@, c)],
           "Ok", "none")

(* ---- State::start -------------------------------------------------------- *)
\* the check "container is a resource" of start, made on the map entry
is_mounted_resource(s, c) == c \in DOMAIN s.containers /\ ~Manifest[c].init

\* the check "already started" of start
is_started(s, c) == c \in DOMAIN s.containers /\ s.containers[c].process # {}

\* resources of the mount table that are not in the container map
unmounted_resources(s, c) == {r \in Manifest[c].mounts : r \notin DOMAIN s.containers}

\* a check that finds every resource available
missing_resource_ignored(s, c) == FALSE

\* if self.npk(&resource).is_none(): a resource that is not mounted is in no
\* repository
missing_resource(s, c) == \E r \in unmounted_resources(s, c) : npk(s, r) = {}

\* need_mount: the container itself unless mounted, and its unmounted resources
need_mount(s, c) ==
  (IF c \in DOMAIN s.containers THEN {} ELSE {c}) \cup unmounted_resources(s, c)

\* init_argv that takes the init of any manifest
init_argv_any(m) == TRUE

\* init_argv: manifest.init.expect("Attempt to use init from resource container")
init_argv(m) == m.init

\* the Started/Stopped/Exit/OutOfMemory notifications
Note(n, c) == [n |-> n, c |-> c]

\* a start that sends no notification
started_silent(s, c) == s

\* self.notification(Notification::Started(container.clone())).await
started(s, c) == notification(s, Note("Started", c))

\* an Err arm that destroys the debug handle only
start_failed_leak(s, pid) == [s EXCEPT !.debugs = @ \ {pid}]

\* the Err arm of process.start(): debug.destroy() and cgroups.destroy()
start_failed(s, pid) == [s EXCEPT !.debugs = @ \ {pid}, !.cgroups = @ \ {pid}]

(* ---- impl Process for IslandProcess ------------------------------------- *)
\* the variants of IslandProcess; Unreachable: the call ran into unreachable!()
IslandProcess == {"Created", "Started", "Stopped"}
Unreachable == "unreachable"

\* IslandProcess::pid
island_pid(h) == IF h = "Stopped" THEN Unreachable ELSE h

\* a start that takes a handle in any state
island_start_any(h) == "Started"

\* IslandProcess::start: Created becomes Started
island_start(h) == IF h = "Created" THEN "Started" ELSE Unreachable

\* IslandProcess::stop: Created and Started become Stopped
island_stop(h) == IF h \in {"Created", "Started"} THEN "Stopped" ELSE Unreachable

\* IslandProcess::destroy: every variant is accepted, the handle is consumed
island_destroy(h) == "Ok"

\* the part of start after the mounts: Launcher.create, Debug::new, CGroups,
\* Process::start, the ProcessContext and the Started notification. stage is
\* the stage whose call fails ("none": every call succeeds; "destroy":
\* Process::start fails and then debug.destroy() of the Err arm fails)
launch(s, c, stage) ==
  IF ~init_argv(Manifest[c]) THEN Ret(panic(s), "none", "init_argv")
  ELSE IF stage = "create" THEN Ret(s, "Err", "create")
  ELSE
    LET pid == <<c, s.next_pid>>
        cg  == Manifest[c].cgroups
        s2  == [s EXCEPT !.alive = @ \cup {pid}, !.next_pid = @ + 1]
        s3  == [s2 EXCEPT !.debugs = @ \cup {pid}]
        s4  == IF cg THEN [s3 EXCEPT !.cgroups = @ \cup {pid}] ELSE s3
        h   == island_start("Created")
        s5  == [s4 EXCEPT !.containers[c].process =
                  {[pid |-> pid, cgroups |-> cg, handle |-> h]}]
        s6  == started(s5, c)
    IN IF island_pid("Created") = Unreachable THEN Ret(panic(s2), "none", Unreachable)
       ELSE IF stage = "debug" THEN Ret(s2, "Err", "debug")
       ELSE IF cg /\ stage = "cgroup" THEN Ret(panic(s3), "none", "cgroup")
       ELSE IF cg /\ stage = "assign" THEN Ret(panic(s4), "none", "cgroup")
       ELSE IF stage = "start" THEN Ret(start_failed(s4, pid), "Err", "start")
       ELSE IF stage = "destroy" THEN Ret(panic(s4), "none", "destroy")
       ELSE IF h = Unreachable THEN Ret(panic(s4), "none", Unreachable)
       ELSE Ret(s6, IF s6.engine = "running" THEN "Ok" ELSE "none", "none")

\* ok: the containers of need_mount whose mount succeeds
start(s, c, ok, stage) ==
  IF npk(s, c) = {} THEN Ret(s, "InvalidContainer", "none")
  ELSE IF is_mounted_resource(s, c) THEN Ret(s, "StartContainerResource", "none")
  ELSE IF is_started(s, c) THEN Ret(s, "StartContainerStarted", "none")
  ELSE IF missing_resource(s, c)
       THEN Ret(s, "StartContainerMissingResource", "none")
  ELSE LET s1 == insert_all(mount_ok(s, ok), s, ok)
       IN IF ok # need_mount(s, c) THEN Ret(s1, "Mount", "mount")
          ELSE launch(s1, c, stage)

(* ---- the wait task -------------------------------------------------------- *)
\* ExitStatus::Exit(code) and ExitStatus::Signaled(signal)
ExitStatus(kind, n) == [kind |-> kind, n |-> n]

\* the wait task panicked and its exit_status resolves to an error
Panicked == ExitStatus("Panicked", 0)

\* the status the wait task computes from what waitpid reports; Panicked:
\* Signal::try_from(code - SIGNAL_OFFSET).expect("Invalid signal offset")
wait_status(ws) ==
  IF ws.kind = "Exited"
  THEN IF SIGNAL_OFFSET <= ws.n
       THEN IF (ws.n - SIGNAL_OFFSET) \in Signal
            THEN ExitStatus("Signaled", ws.n - SIGNAL_OFFSET)
            ELSE Panicked
       ELSE ExitStatus("Exit", ws.n)
  ELSE ExitStatus("Signaled", ws.n)

\* Event::Exit(container, status)
ExitEvent(c, status) == [k |-> "Exit", c |-> c, status |-> status]

\* the wait tasks of s that hold a status for the child
reaped_of(s, pid) == {w \in s.reaped : w.pid = pid}

(* ---- State::stop --------------------------------------------------------- *)
\* Process::stop: the child is signalled; its wait task reaps it, sends
\* Event::Exit into the event channel (retrying while the channel is full)
\* and only then resolves exit_status, which stop awaits. A child that has
\* exited (ESRCH) has its status in the wait task; the exit_status of a wait
\* task that panicked is an error, which terminate unwraps
\* (expect("Failed to terminate process"))
process_stop(s, pid) ==
  LET held == reaped_of(s, pid)
      st   == IF held # {} THEN (CHOOSE w \in held : TRUE).status
              ELSE wait_status(Signaled(SIGTERM))
  IN IF pid \in s.alive \/ held # {}
     THEN IF st = Panicked THEN panic(s)
          ELSE IF Len(s.events) < QueueCap
          THEN [s EXCEPT !.alive = @ \ {pid}, !.reaped = @ \ held,
                         !.events = Append(@, ExitEvent(pid[1], st))]
          ELSE [s EXCEPT !.alive = @ \ {pid},
                         !.reaped = @ \cup {[pid |-> pid, status |-> st]},
                         !.engine = "blocked"]
     ELSE s

\* terminate that leaves the cgroups of the process
terminate_keep_cgroups(s, ctx, dfail) ==
  LET s1 == process_stop(s, ctx.pid)
  IN IF s1.engine # "running" THEN Ret(s1, "none", "none")
     ELSE IF dfail THEN Ret(s1, "Err", "debug")
     ELSE Ret([s1 EXCEPT !.debugs = @ \ {ctx.pid}], "Ok", "none")

\* ProcessContext::terminate; dfail: debug.destroy returns an error, which
\* terminate returns before the cgroups are destroyed
terminate(s, ctx, dfail) ==
  LET s1 == process_stop(s, ctx.pid)
  IN IF island_stop(ctx.handle) = Unreachable THEN Ret(panic(s), "none", Unreachable)
     ELSE IF s1.engine # "running" THEN Ret(s1, "none", "none")
     ELSE IF dfail THEN Ret(s1, "Err", "debug")
     ELSE Ret([s1 EXCEPT !.debugs = @ \ {ctx.pid}, !.cgroups = @ \ {ctx.pid}],
              "Ok", "none")

\* the Some arm of stop: the process context is taken out of the entry and
\* terminated (expect("Failed to stop process")), then Stopped is sent
stop_started(s, c, dfail) ==
  LET ctx == CHOOSE p \in s.containers[c].process : TRUE
      t   == terminate([s EXCEPT !.containers[c].process = {}], ctx, dfail)
      s2  == notification(t.s, Note("Stopped", c))
  IN IF t.s.engine # "running" THEN t
     ELSE IF t.res # "Ok" THEN Ret(panic(t.s), "none", t.fail)
     ELSE Ret(s2, IF s2.engine = "running" THEN "Ok" ELSE "none", "none")

\* stop that answers Ok for a container without a process context
stop_lenient(s, c, dfail) ==
  IF c \in DOMAIN s.containers /\ s.containers[c].process # {}
  THEN stop_started(s, c, dfail)
  ELSE Ret(s, "Ok", "none")

stop(s, c, dfail) ==
  IF c \in DOMAIN s.containers /\ s.containers[c].process # {}
  THEN stop_started(s, c, dfail)
  ELSE Ret(s, "StopContainerNotStarted", "none")


(* ---- State::shutdown ------------------------------------------------------ *)
\* the orders in which a HashMap may iterate over its keys
Orders ==
  {o \in [1..Cardinality(Container) -> Container] :
     \A i, j \in DOMAIN o : o[i] = o[j] => i = j}

\* for container in &started { self.stop(&container, 5 s).await?; }
\* D: the containers for which debug.destroy fails
RECURSIVE stop_each(_, _, _)
stop_each(s, seq, D) ==
  IF seq = <<>> THEN Ret(s, "Ok", "none")
  ELSE LET r == stop(s, Head(seq), Head(seq) \in D)
       IN IF r.s.engine # "running" \/ r.res # "Ok" THEN r
          ELSE stop_each(r.s, Tail(seq), D)

\* for container in &containers { self.umount(container).await?; }
\* U: the containers for which mount_control.umount fails
RECURSIVE umount_each(_, _, _)
umount_each(s, seq, U) ==
  IF seq = <<>> THEN Ret(s, "Ok", "none")
  ELSE LET r == umount(s, Head(seq), Head(seq) \in U)
       IN IF r.s.engine # "running" \/ r.res # "Ok" THEN r
          ELSE umount_each(r.s, Tail(seq), U)

\* shutdown consumes the State: the engine is "stopped" after Ok and "error"
\* after an error returned with ?
shutdown(s, order, D, U) ==
  LET running == SelectSeq(order, LAMBDA c : c \in DOMAIN s.containers
                                             /\ s.containers[c].process # {})
      r1      == stop_each(s, running, D)
      keys    == SelectSeq(order, LAMBDA c : c \in DOMAIN r1.s.containers)
      r2      == umount_each(r1.s, keys, U)
  IN IF r1.s.engine # "running" THEN r1
     ELSE IF r1.res # "Ok" THEN Ret([r1.s EXCEPT !.engine = "error"], r1.res, r1.fail)
     ELSE IF r2.s.engine # "running" THEN r2
     ELSE IF r2.res # "Ok" THEN Ret([r2.s EXCEPT !.engine = "error"], r2.res, r2.fail)
     ELSE Ret([r2.s EXCEPT !.engine = "stopped"], "Ok", "none")

\* Request::Shutdown: events_tx.send(Event::Shutdown).await, then
\* Response::Ok; the send waits for a free slot of the channel
request_shutdown(s) ==
  IF Len(s.events) < QueueCap
  THEN Ret([s EXCEPT !.events = Append(@, [k |-> "Shutdown"])], "Ok", "none")
  ELSE Ret([s EXCEPT !.engine = "blocked"], "none", "none")

(* ---- State::install / State::uninstall ----------------------------------- *)
\* Repository::insert: adds the package to the set of the repository and
\* rejects a package that the repository already holds
repository_insert(repo, c) ==
  IF c \in repo THEN [repo |-> repo, res |-> "InstallDuplicate"]
  ELSE [repo |-> repo \cup {c}, res |-> "Ok"]

\* Repository::remove
repository_remove(repo, c) == repo \ {c}

install(s, id, c) ==
  IF id \notin RepositoryId THEN Ret(s, "InvalidRepository", "none")
  ELSE LET r == repository_insert(s.repositories[id], c)
       IN Ret([s EXCEPT !.repositories[id] = r.repo], r.res, "none")

uninstall(s, c, ufail) ==
  LET u == IF c \in DOMAIN s.containers THEN umount(s, c, ufail)
           ELSE Ret(s, "Ok", "none")
  IN IF u.res # "Ok" THEN u
     ELSE Ret([u.s EXCEPT !.repositories =
                 [id \in RepositoryId |-> repository_remove(@[id], c)]],
              "Ok", "none")

(* ---- State::on_exit / State::on_oom -------------------------------------- *)
\* destroy that leaves the cgroups of the process
destroy_keep_cgroups(s, ctx, dfail) ==
  IF dfail THEN panic(s) ELSE [s EXCEPT !.debugs = @ \ {ctx.pid}]

\* ProcessContext::destroy; dfail: debug.destroy fails
\* (expect("Failed to destroy debug utilities"))
destroy(s, ctx, dfail) ==
  IF island_destroy(ctx.handle) # "Ok" \/ dfail THEN panic(s)
  ELSE [s EXCEPT !.debugs = @ \ {ctx.pid}, !.cgroups = @ \ {ctx.pid}]

\* Notification::Exit { container, status }
ExitNote(c, status) == [n |-> "Exit", c |-> c, status |-> status]

on_exit(s, c, status, dfail) ==
  IF c \in DOMAIN s.containers /\ s.containers[c].process # {}
  THEN LET ctx == CHOOSE p \in s.containers[c].process : TRUE
           s1  == destroy([s EXCEPT !.containers[c].process = {}], ctx, dfail)
           s2  == notification(s1, ExitNote(c, status))
       IN IF s1.engine # "running" THEN Ret(s1, "none", "debug")
          ELSE Ret(s2, "none", "none")
  ELSE Ret(s, "none", "none")

\* on_oom that stops the container without the OutOfMemory notification
on_oom_silent(s, c, dfail) ==
  IF c \in DOMAIN s.containers /\ s.containers[c].process # {}
  THEN LET r == stop(s, c, dfail) IN Ret(r.s, "none", r.fail)
  ELSE Ret(s, "none", "none")

on_oom(s, c, dfail) ==
  IF c \in DOMAIN s.containers /\ s.containers[c].process # {}
  THEN LET s1 == notification(s, Note("OutOfMemory", c))
       IN IF s1.engine # "running" THEN Ret(s1, "none", "none")
          ELSE LET r == stop(s1, c, dfail) IN Ret(r.s, "none", r.fail)
  ELSE Ret(s, "none", "none")

(* ---- State::console_request (Mount) -------------------------------------- *)
\* req: the requested containers; ok: the containers whose mount succeeds.
\* self.mount(container).await? returns InvalidContainer out of the handler
\* for a container that is in no repository; the mount tasks spawned before
\* that still run. Every mounted container is inserted into the map.
\* The response is Response::Mount(vec![]).
mount_response(req, ok) == {}

bulk_mount(s, req, ok) ==
  IF \E c \in req : npk(s, c) = {}
  THEN Ret([mount_ok(s, ok) EXCEPT !.engine = "error"], "none", "mount")
  ELSE [Ret(insert_all(mount_ok(s, ok), s, ok), "Mount", "none")
          EXCEPT !.entries = mount_response(req, ok)]

\* mounts of run_dir without an entry of the container map
stray(s) ==
  LET n(c) == s.run_dir[c] - (IF c \in DOMAIN s.containers THEN 1 ELSE 0)
      RECURSIVE sum(_)
      sum(S) == IF S = {} THEN 0
                ELSE LET c == CHOOSE x \in S : TRUE IN n(c) + sum(S \ {c})
  IN sum(Container)

(* ---- the client library (api/client.rs) ------------------------------------- *)
\* tasks of the application that call Client::request and Client::install
Callers == 1..MaxCallers

\* Result<Response, Error> of a call; of: the caller whose request the
\* response answers
NoResult == [r |-> "none", of |-> 0]
Ok(c) == [r |-> "Ok", of |-> c]
Err(e) == [r |-> e, of |-> 0]

\* no Client has been created
NotConnected == [task |-> "none"]

\* the connection after Client::new: the task runs its loop, nothing is
\* queued or sent, no caller is in a call.
\* request_rx: the (request, r_tx) pairs sent by the callers; response_tx:
\* the Option with the reply channel of the request that was sent; sink: the
\* requests the runtime has not answered; stream: the messages of the runtime
\* the task has not read; eof: the runtime has closed the connection; task:
\* "running" or the result the task ended with; callers: status "idle",
\* "queued" (the request is in request_rx) or "waiting" (it was sent), the
\* result of the last call and whether a response was pending when the call
\* was made
Connected ==
  [request_rx |-> <<>>, response_tx |-> {}, sink |-> <<>>, stream |-> <<>>,
   eof |-> FALSE, task |-> "running",
   callers |-> [c \in Callers |->
                  [status |-> "idle", result |-> NoResult, racing |-> FALSE]]]

\* r_tx.send(result): the call of the caller returns result
answer(cl, c, result) ==
  [cl EXCEPT !.callers[c] = [@ EXCEPT !.status = "idle", !.result = result]]

\* the task ends with result: request_rx and response_tx are dropped and
\* every caller that waits on a reply channel gets Error::Stopped
task_break(cl, result) ==
  [cl EXCEPT !.task = result, !.request_rx = <<>>, !.response_tx = {},
             !.callers = [c \in Callers |->
                            IF cl.callers[c].status = "idle" THEN cl.callers[c]
                            ELSE [cl.callers[c] EXCEPT !.status = "idle",
                                                       !.result = Err("Stopped")]]]

\* Client::request and Client::install: the request and the sender of a new
\* reply channel go into the request channel of the task
request(cl, c, kind) ==
  IF cl.task # "running"
  THEN answer(cl, c, Err("Stopped"))
  ELSE [cl EXCEPT !.request_rx = Append(@, [caller |-> c, kind |-> kind]),
                  !.callers[c] = [status |-> "queued", result |-> NoResult,
                                  racing |-> cl.response_tx # {}]]

\* connection.send(Message::new_request(request)): the request is on its way
\* to the runtime and its reply channel is stored, or the caller gets the
\* error of the send
connection_send(cl, c, send_ok) ==
  IF send_ok
  THEN [cl EXCEPT !.sink = Append(@, c), !.response_tx = {c},
                  !.callers[c].status = "waiting"]
  ELSE answer(cl, c, Err("Io"))

\* a request arm that sends whether or not a response is pending
request_recv_pipelined(cl, send_ok, file) ==
  LET r == Head(cl.request_rx)
      rest == [cl EXCEPT !.request_rx = Tail(@)]
  IN connection_send(rest, r.caller, send_ok)

\* the request arm of the select: a request taken while a response is pending
\* is answered with PendingRequest; else it is sent, and an install copies
\* the file of the package into the connection after it.
\* file: "missing" (File::open fails), "copy_fails" (io::copy fails) or "ok"
request_recv(cl, send_ok, file) ==
  LET r == Head(cl.request_rx)
      rest == [cl EXCEPT !.request_rx = Tail(@)]
  IN IF cl.response_tx # {}
     THEN answer(rest, r.caller, Err("PendingRequest"))
     ELSE IF r.kind = "Request" THEN connection_send(rest, r.caller, send_ok)
     ELSE IF file = "missing" THEN task_break(rest, "panicked")
     ELSE IF file = "copy_fails"
     THEN task_break(connection_send(rest, r.caller, send_ok), "Io")
     ELSE connection_send(rest, r.caller, send_ok)

\* the message arm of the select: a response goes to the stored reply channel,
\* a notification to the notification channel; a response nobody waits for
\* and the end of the stream end the task
connection_next(cl) ==
  IF cl.stream = <<>> THEN task_break(cl, "Ok")
  ELSE LET m == Head(cl.stream)
           rest == [cl EXCEPT !.stream = Tail(@)]
       IN IF m.payload = "Response"
          THEN IF cl.response_tx # {}
               THEN answer([rest EXCEPT !.response_tx = {}],
                           CHOOSE c \in cl.response_tx : TRUE, Ok(m.of))
               ELSE task_break(rest, "Protocol")
          ELSE rest

(* ---- the codec (api/codec.rs) ------------------------------------------------ *)
\* characters of the strings of a message: a letter, line feed, carriage
\* return, the quotation mark and the backslash
Chars == {"n", "LF", "CR", "QUOTE", "BACKSLASH"}
Strings == UNION {[1..n -> Chars] : n \in 0..MaxLen}

\* model::Message: the variant of the payload and the string it carries
Payload == {"Connect", "Request", "Response", "Notification"}
Message == [payload : Payload, text : Strings]

\* serde_json's escape \c of a character that cannot stand in a string
Escaped == [LF |-> "n", CR |-> "r", QUOTE |-> "QUOTE", BACKSLASH |-> "BACKSLASH"]

\* the characters of a string between the quotation marks of its JSON text
RECURSIVE escape(_)
escape(s) ==
  IF s = <<>> THEN <<>>
  ELSE (IF Head(s) = "n" THEN <<"n">> ELSE <<"BACKSLASH", Escaped[Head(s)]>>)
         \o escape(Tail(s))

\* the string of the characters between the quotation marks; Failed: a
\* control character, a quotation mark or an incomplete escape among them
Failed == <<"Err">>
RECURSIVE unescape(_)
unescape(t) ==
  IF t = <<>> THEN <<>>
  ELSE IF Head(t) = "n"
  THEN LET u == unescape(Tail(t)) IN IF u = Failed THEN Failed ELSE <<"n">> \o u
  ELSE IF Head(t) = "BACKSLASH" /\ Len(t) >= 2
  THEN LET c == {x \in DOMAIN Escaped : Escaped[x] = t[2]}
           u == unescape(Tail(Tail(t)))
       IN IF c = {} \/ u = Failed THEN Failed
          ELSE <<CHOOSE x \in c : TRUE>> \o u
  ELSE Failed

\* serde_json::to_string(&item): the JSON text of the message
to_string(item) ==
  <<"{", item.payload, ":", "QUOTE">> \o escape(item.text) \o <<"QUOTE", "}">>

\* serde_json::from_str(line): the message of a JSON text, or no message
from_str(line) ==
  IF /\ Len(line) >= 6
     /\ line[1] = "{" /\ line[2] \in Payload /\ line[3] = ":" /\ line[4] = "QUOTE"
     /\ line[Len(line) - 1] = "QUOTE" /\ line[Len(line)] = "}"
     /\ unescape(SubSeq(line, 5, Len(line) - 2)) # Failed
  THEN {[payload |-> line[2], text |-> unescape(SubSeq(line, 5, Len(line) - 2))]}
  ELSE {}

\* LinesCodec::encode: the line and a line feed are appended to the buffer
lines_encode(line, dst) == dst \o line \o <<"LF">>

\* LinesCodec::decode: the bytes up to the first line feed are split off the
\* buffer and returned without the line feed and a carriage return before it;
\* without a line feed the buffer is left as it is
lines_decode(src) ==
  LET nl == {i \in DOMAIN src : src[i] = "LF"}
  IN IF nl = {} THEN [line |-> {}, src |-> src]
     ELSE LET i == CHOOSE k \in nl : \A j \in nl : k <= j
              l == SubSeq(src, 1, i - 1)
          IN [line |-> {IF l # <<>> /\ l[Len(l)] = "CR"
                        THEN SubSeq(l, 1, Len(l) - 1) ELSE l},
              src |-> SubSeq(src, i + 1, Len(src))]

\* an encoder that does not end the frame
encode_unterminated(item, dst) == dst \o to_string(item)

\* Encoder::encode(item, dst)
encode(item, dst) == lines_encode(to_string(item), dst)

\* Decoder::decode(src): Ok(None) without a full line, Ok(Some(message)) or
\* the InvalidData error for a line that is not a message
decode(src) ==
  LET d == lines_decode(src)
      item == IF d.line = {} THEN {} ELSE from_str(CHOOSE l \in d.line : TRUE)
  IN [item |-> item, err |-> d.line # {} /\ item = {}, src |-> d.src]

\* Codec::default(), before a message is encoded
Codec == [stage |-> "default"]

(* ---- the launcher (island/mod.rs): one child, its handle, its wait task --- *)
\* no child has been created
NoIsland == [stage |-> "none"]

\* the order of the child's checkpoint: the child waits for Start and then
\* sends Started (fn sync), or sends Started and then waits for Start
Orders2 == {"start_first", "ack_first"}

\* checkpoints with one pipe used in both directions
checkpoints_shared ==
  [runtime |-> [rx |-> "a", tx |-> "a"], init |-> [rx |-> "a", tx |-> "a"]]

\* checkpoints(): pipes a and b; (Checkpoint(a.0, b.1), Checkpoint(b.0, a.1)):
\* the runtime's end reads a and writes b, the end of init reads b and writes a
checkpoints ==
  [runtime |-> [rx |-> "a", tx |-> "b"], init |-> [rx |-> "b", tx |-> "a"]]

\* what State::stop returns: Ok with the ExitStatus of the child, or an error
StopResult(kind, status) == [kind |-> kind, status |-> status]

\* Island::create: the pipes, the cloned child in its init, the wait task in
\* waitpid and the handle IslandProcess::Created
IslandCreated(order) ==
  [stage |-> "created", order |-> order,
   handle |-> "Created",     \* the IslandProcess, "Dropped" with a dropped call
   ctx |-> FALSE,            \* the container map holds the ProcessContext
   call |-> "idle",          \* where the engine is inside start or stop
   pipes |-> [a |-> <<>>, b |-> <<>>],
   got |-> {},               \* the messages received: what, from whom, by whom
   child |-> "init",         \* init | running | zombie | reaped
   received |-> FALSE,       \* the child has read Start
   sent |-> FALSE,           \* the child has written Started
   ws |-> Exited(0),         \* what waitpid reports of the zombie
   signals |-> <<>>,         \* the signals sent to the process group
   task |-> "waitpid",       \* the wait task: waitpid | sending | done
   status |-> Exited(0),     \* the ExitStatus the wait task holds
   published |-> <<>>,       \* the Exit events the wait task has sent
   start_sent |-> FALSE, timed_out |-> FALSE, esrch |-> FALSE, dropped |-> FALSE,
   errno |-> "none",         \* the error of the last kill
   invalid |-> FALSE,        \* the last wait read another value than expected
   result |-> StopResult("none", Exited(0)),  \* what the last stop returned
   notes |-> <<>>]           \* the notifications of the engine

\* Checkpoint::send: self.1.send(c)
checkpoint_send(i, end, c) ==
  [i EXCEPT !.pipes[checkpoints[end].tx] = Append(@, [m |-> c, from |-> end])]

\* Checkpoint::wait: self.0.recv() is ready when the pipe holds a message; a
\* value other than c is a panic of the process that waits
checkpoint_ready(i, end) == i.pipes[checkpoints[end].rx] # <<>>

checkpoint_wait(i, end, c) ==
  LET msg == Head(i.pipes[checkpoints[end].rx])
      i1  == [i EXCEPT !.pipes[checkpoints[end].rx] = Tail(@),
                       !.got = @ \cup {[m |-> msg.m, from |-> msg.from, by |-> end]}]
  IN [i1 EXCEPT !.invalid = (msg.m # c)]

\* IslandProcess::start, first half: checkpoint.async_send(Start::Start)
start_send(i) ==
  IF island_start(i.handle) = Unreachable THEN [i EXCEPT !.call = "panicked"]
  ELSE [checkpoint_send(i, "runtime", "Start")
          EXCEPT !.call = "start_wait", !.start_sent = TRUE]

\* IslandProcess::start, second half: checkpoint.async_wait(Start::Started),
\* then the handle is Started and State::start stores the ProcessContext
start_wait(i) ==
  LET i1 == checkpoint_wait(i, "runtime", "Started")
  IN IF i1.invalid THEN [i1 EXCEPT !.call = "panicked"]
     ELSE [i1 EXCEPT !.call = "idle", !.handle = island_start(i.handle), !.ctx = TRUE]

\* sys::signal::kill(process_group, signal): ESRCH once the child is reaped
kill(i, sig) ==
  IF i.child = "reaped" THEN [i EXCEPT !.errno = "ESRCH"]
  ELSE [i EXCEPT !.signals = Append(@, sig), !.errno = "none"]

\* a stop that starts with SIGKILL
stop_sigkill_first(i) ==
  LET k == kill(i, SIGKILL)
  IN IF k.errno = "ESRCH" THEN [k EXCEPT !.call = "esrch_wait", !.esrch = TRUE]
     ELSE [k EXCEPT !.call = "kill_wait"]

\* IslandProcess::stop up to its first await: SIGTERM to the process group;
\* Ok: exit_status is awaited with the timeout; ESRCH: exit_status is awaited
stop_sigterm(i) ==
  LET k == kill(i, SIGTERM)
  IN IF k.errno = "ESRCH" THEN [k EXCEPT !.call = "esrch_wait", !.esrch = TRUE]
     ELSE [k EXCEPT !.call = "term_wait"]

\* State::stop: the ProcessContext is taken out of the map and terminated; a
\* container without one is answered StopContainerNotStarted
stop_call(i) ==
  IF i.ctx
  THEN IF island_stop(i.handle) = Unreachable THEN [i EXCEPT !.call = "panicked"]
       ELSE [stop_sigterm(i) EXCEPT !.ctx = FALSE,
                                    !.result = StopResult("none", Exited(0))]
  ELSE [i EXCEPT !.result = StopResult("StopContainerNotStarted", Exited(0))]

\* the Err arm of the timeout: SIGKILL to the process group, with
\* map_err(Error::Os("Failed to kill process"))? for a group that is gone;
\* ProcessContext::terminate unwraps the error of stop
stop_sigkill(i) ==
  LET k == kill(i, SIGKILL)
  IN IF k.errno = "ESRCH"
     THEN [k EXCEPT !.call = "panicked", !.handle = "Dropped",
                    !.result = StopResult("Failed to kill process", Exited(0))]
     ELSE [k EXCEPT !.call = "kill_wait"]

\* exit_status is ready: stop returns IslandProcess::Stopped and the status,
\* and State::stop sends the Stopped notification
stop_return(i) ==
  [i EXCEPT !.call = "idle", !.handle = island_stop(i.handle),
            !.result = StopResult("Ok", i.status),
            !.notes = Append(@, [n |-> "Stopped"])]

\* the future of stop is dropped at one of its awaits: the handle and the
\* exit_status it owns go with it, the wait task is detached
stop_dropped(i) ==
  [i EXCEPT !.call = "idle", !.handle = "Dropped", !.dropped = TRUE]

\* the wait task: waitpid returns the status of the zombie
task_waitpid(i) ==
  [i EXCEPT !.child = "reaped", !.task = "sending", !.status = wait_status(i.ws)]

\* the wait task: tx.try_send(Event::Exit(container, status)) is Ok, or the
\* channel is closed; the task returns the status
task_send(i, closed) ==
  [i EXCEPT !.task = "done",
            !.published = IF closed THEN @ ELSE Append(@, ExitEvent("app", i.status))]

\* State::on_exit for the Exit event of the child: the ProcessContext, if the
\* map has one, is destroyed and the Exit notification carries the status
island_on_exit(i) ==
  LET ev == Head(i.published)
      i1 == [i EXCEPT !.published = Tail(@)]
  IN IF i.ctx
     THEN [i1 EXCEPT !.ctx = FALSE, !.handle = "Destroyed",
                     !.notes = Append(@, ExitNote(ev.c, ev.status))]
     ELSE i1

(* ---- the specification ---------------------------------------------------- *)
Idle == [op |-> "none", arg |-> "", res |-> "none", fail |-> "none", notes |-> <<>>,
         entries |-> {}, delivered |-> FALSE, mounted |-> {}, started |-> {}]

Init ==
  /\ engine = "running"
  /\ repositories = [id \in RepositoryId |-> {}]
  /\ containers = <<>>
  /\ run_dir = [c \in Container |-> 0]
  /\ alive = {}
  /\ reaped = {}
  /\ cgroups = {}
  /\ debugs = {}
  /\ events = <<>>
  /\ next_pid = 1
  /\ last = Idle
  /\ client = NotConnected
  /\ codec = Codec
  /\ island = NoIsland

\* the main loop waits in event_rx.recv() for the next event
AtRecv == engine = "running" /\ last = Idle

\* the handler's result, computed once, becomes the next state; the actions
\* take one step for the inputs that give the same result
Apply(r, op, arg) ==
  \E v \in {r} :
    /\ engine' = v.s.engine
    /\ repositories' = v.s.repositories
    /\ containers' = v.s.containers
    /\ run_dir' = v.s.run_dir
    /\ alive' = v.s.alive
    /\ reaped' = v.s.reaped
    /\ cgroups' = v.s.cgroups
    /\ debugs' = v.s.debugs
    /\ events' = v.s.events
    /\ next_pid' = v.s.next_pid
    /\ last' = [op |-> op, arg |-> arg, res |-> v.res, fail |-> v.fail,
                notes |-> v.s.notes, entries |-> v.entries, delivered |-> v.delivered,
                mounted |-> DOMAIN containers,
                started |-> {c \in DOMAIN containers : containers[c].process # {}}]
    /\ UNCHANGED <<api, island>>

\* Request::Install(repository, package)
Install(id, c, closed) ==
  /\ AtRecv
  /\ id \in RepositoryId \/ c = CHOOSE x \in Container : TRUE
  /\ Apply(respond(install(State, id, c), closed), "install", <<id, c>>)

\* Request::Uninstall(container)
Uninstall(c, closed) ==
  /\ AtRecv
  /\ \E r \in {uninstall(State, c, ufail) : ufail \in BOOLEAN} :
       Apply(respond(r, closed), "uninstall", c)

\* Request::Mount(containers)
Mount(req, closed) ==
  /\ AtRecv
  /\ \E r \in {bulk_mount(State, req, ok) :
                  ok \in SUBSET {c \in req : npk(State, c) # {}}} :
       /\ stray(r.s) <= MaxStray
       /\ Apply(respond(r, closed), "mount", req)

\* Request::Umount(container)
Umount(c, closed) ==
  /\ AtRecv
  /\ \E r \in {umount(State, c, ufail) : ufail \in BOOLEAN} :
       Apply(respond(r, closed), "umount", c)

\* Request::Start(container)
Start(c, closed) ==
  /\ AtRecv
  /\ next_pid <= MaxPid
  /\ \E r \in UNION {{start(State, c, ok, stage) :
                          stage \in (IF ok = need_mount(State, c) THEN Stages
                                     ELSE {"none"})} :
                        ok \in SUBSET need_mount(State, c)} :
       Apply(respond(r, closed), "start", c)

\* Request::Stop(container, timeout)
Stop(c, closed) ==
  /\ AtRecv
  /\ \E r \in {stop(State, c, dfail) : dfail \in BOOLEAN} :
       Apply(respond(r, closed), "stop", c)

\* the main loop takes the next event of the channel
Dequeued == [State EXCEPT !.events = Tail(@)]

\* Event::Exit(container, status)
OnExit ==
  /\ AtRecv
  /\ events # <<>> /\ Head(events).k = "Exit"
  /\ \E r \in {on_exit(Dequeued, Head(events).c, Head(events).status, dfail) :
                  dfail \in BOOLEAN} :
       Apply(r, "on_exit", Head(events).c)

\* Event::Oom(container)
OnOom ==
  /\ AtRecv
  /\ events # <<>> /\ Head(events).k = "Oom"
  /\ \E r \in {on_oom(Dequeued, Head(events).c, dfail) : dfail \in BOOLEAN} :
       Apply(r, "on_oom", Head(events).c)

\* Event::Notification(n): forwarded to the console
OnNotification ==
  /\ AtRecv
  /\ events # <<>> /\ Head(events).k = "Notification"
  /\ Apply(Ret(Dequeued, "none", "none"), "notification", "")

\* wait task: waitpid returns ws for a child that exited on its own; the task
\* sends Event::Exit with try_send, or keeps the status while the channel is
\* full; a task that panics on the status sends nothing
ChildExit(pid, ws) ==
  /\ AtRecv \/ engine = "blocked"
  /\ pid \in alive
  /\ alive' = alive \ {pid}
  /\ IF wait_status(ws) # Panicked /\ Len(events) < QueueCap
     THEN /\ events' = Append(events, ExitEvent(pid[1], wait_status(ws)))
          /\ reaped' = reaped
     ELSE /\ events' = events
          /\ reaped' = reaped \cup {[pid |-> pid, status |-> wait_status(ws)]}
  /\ UNCHANGED <<last, engine, repositories, containers, run_dir, cgroups, debugs, next_pid>>
  /\ UNCHANGED <<api, island>>

\* wait task: the retry of try_send after TrySendError::Full
WaitRetry(pid) ==
  /\ AtRecv \/ engine = "blocked"
  /\ \E w \in reaped_of(State, pid) :
       /\ w.status # Panicked
       /\ Len(events) < QueueCap
       /\ events' = Append(events, ExitEvent(pid[1], w.status))
       /\ reaped' = reaped \ {w}
  /\ UNCHANGED <<last, engine, repositories, containers, run_dir, alive, cgroups, debugs, next_pid>>
  /\ UNCHANGED <<api, island>>

\* the memory cgroup's OOM notifier fires for a child with a cgroup
OomNotify(pid) ==
  /\ AtRecv
  /\ pid \in cgroups /\ pid \in alive
  /\ Len(events) < QueueCap
  /\ events' = Append(events, [k |-> "Oom", c |-> pid[1]])
  /\ UNCHANGED <<last, engine, repositories, containers, run_dir, alive, reaped, cgroups,
                 debugs, next_pid>>
  /\ UNCHANGED <<api, island>>

\* Request::Shutdown of the one client that asks for the shutdown
ShutdownRequest(closed) ==
  /\ AtRecv
  /\ \A i \in DOMAIN events : events[i].k # "Shutdown"
  /\ Apply(respond(request_shutdown(State), closed), "shutdown_request", "")

\* Event::Shutdown: the main loop leaves its loop and calls State::shutdown
OnShutdown ==
  /\ AtRecv
  /\ events # <<>> /\ Head(events).k = "Shutdown"
  /\ \E order \in Orders, D \in SUBSET {c \in DOMAIN containers : containers[c].process # {}},
        U \in SUBSET DOMAIN containers :
       Apply(shutdown(Dequeued, order, D, U), "shutdown", <<D, U>>)

\* the handler has returned and its response is sent: the main loop goes
\* back to event_rx.recv()
Loop ==
  /\ engine = "running"
  /\ last # Idle
  /\ last' = Idle
  /\ UNCHANGED <<engine, repositories, containers, run_dir, alive, reaped, cgroups,
                 debugs, events, next_pid>>
  /\ UNCHANGED <<api, island>>

Pids == Container \X (1..(MaxPid + 1))

\* the requests of the sessions; closed: the session that sent the request
\* has gone away before the response is sent
Requests(closed) ==
  \/ \E id \in {"r1", UnknownRepository}, c \in Container : Install(id, c, closed)
  \/ \E c \in Container : Uninstall(c, closed)
  \/ \E req \in SUBSET Container : Mount(req, closed)
  \/ \E c \in Container : Umount(c, closed)
  \/ \E c \in Container : Start(c, closed)
  \/ \E c \in Container : Stop(c, closed)

\* the events of the children and the steps of the main loop
Events ==
  \/ OnExit
  \/ OnOom
  \/ OnNotification
  \/ \E pid \in Pids : ChildExit(pid, Exited(0))
  \/ \E pid \in Pids : WaitRetry(pid)
  \/ \E pid \in Pids : OomNotify(pid)
  \/ Loop

Next ==
  \/ Requests(FALSE)
  \/ Events

\* every package is installed into the repository r1
Spec == Init /\ [][Next]_vars

\* packages are installed into both repositories
NextRepos ==
  \/ Next
  \/ \E c \in Container : Install("r2", c, FALSE)

SpecRepos == Init /\ [][NextRepos]_vars

\* children end with every status of WaitStatus
NextWait ==
  \/ Next
  \/ \E pid \in Pids, ws \in WaitStatus : ChildExit(pid, ws)

SpecWait == Init /\ [][NextWait]_vars

\* a client asks for the shutdown of the runtime
NextShutdown ==
  \/ Next
  \/ ShutdownRequest(FALSE)
  \/ OnShutdown

SpecShutdown == Init /\ [][NextShutdown]_vars

\* every session goes away before the response to its request is sent
NextDisconnect ==
  \/ Requests(TRUE)
  \/ Events

SpecDisconnect == Init /\ [][NextDisconnect]_vars

\* the main loop is scheduled and takes the events of its channel, and a wait
\* task that holds a status retries its try_send every millisecond
Fairness ==
  /\ WF_vars(Loop)
  /\ SF_vars(OnExit \/ OnOom \/ OnNotification)
  /\ \A pid \in Pids : SF_vars(WaitRetry(pid))

SpecLive == Init /\ [][Next]_vars /\ Fairness

(* ---- the client library: actions ------------------------------------------- *)
\* Client::new: the connection is made and the connection task is spawned
Connect ==
  /\ client = NotConnected
  /\ client' = Connected
  /\ UNCHANGED <<runtime, codec, island>>

\* a caller calls Client::request (kind "Request") or Client::install
ClientCall(c, kind) ==
  /\ client # NotConnected
  /\ client.callers[c].status = "idle"
  /\ client' = request(client, c, kind)
  /\ UNCHANGED <<runtime, codec, island>>

\* connection task: request_rx.recv() is ready
TaskRequest ==
  /\ client.task = "running"
  /\ client.request_rx # <<>>
  /\ \E send_ok \in BOOLEAN, file \in {"ok", "missing", "copy_fails"} :
       client' = request_recv(client, send_ok, file)
  /\ UNCHANGED <<runtime, codec, island>>

\* connection task: connection.next() is ready
TaskMessage ==
  /\ client.task = "running"
  /\ client.stream # <<>> \/ client.eof
  /\ client' = connection_next(client)
  /\ UNCHANGED <<runtime, codec, island>>

\* the runtime answers the oldest request it has received
ServerResponse ==
  /\ client # NotConnected
  /\ ~client.eof
  /\ client.sink # <<>>
  /\ client' = [client EXCEPT !.sink = Tail(@),
                              !.stream = Append(@, [payload |-> "Response",
                                                    of |-> Head(client.sink)])]
  /\ UNCHANGED <<runtime, codec, island>>

\* the runtime publishes a notification to the session
ServerNotification ==
  /\ client # NotConnected
  /\ ~client.eof
  /\ \A i \in DOMAIN client.stream : client.stream[i].payload # "Notification"
  /\ client' = [client EXCEPT !.stream = Append(@, [payload |-> "Notification",
                                                    of |-> 0])]
  /\ UNCHANGED <<runtime, codec, island>>

\* the runtime closes the connection
ServerClose ==
  /\ client # NotConnected
  /\ ~client.eof
  /\ client' = [client EXCEPT !.eof = TRUE]
  /\ UNCHANGED <<runtime, codec, island>>

NextClient ==
  \/ Connect
  \/ \E c \in Callers, kind \in {"Request", "Install"} : ClientCall(c, kind)
  \/ TaskRequest
  \/ TaskMessage
  \/ ServerResponse
  \/ ServerNotification
  \/ ServerClose

\* the callers of one client, its connection task and the runtime at the
\* other end of the connection
SpecClient == Init /\ [][NextClient]_vars

(* ---- the codec: actions ------------------------------------------------------ *)
\* codec.encode(message, &mut bytes) on an empty buffer
Encode(m) ==
  /\ codec.stage # "encoded"
  /\ codec' = [stage |-> "encoded", message |-> m, src |-> encode(m, <<>>),
               item |-> {}, err |-> FALSE]
  /\ UNCHANGED <<runtime, client, island>>

\* codec.decode(&mut bytes)
Decode ==
  /\ codec.stage = "encoded"
  /\ \E d \in {decode(codec.src)} :
       codec' = [codec EXCEPT !.stage = "decoded", !.src = d.src,
                              !.item = d.item, !.err = d.err]
  /\ UNCHANGED <<runtime, client, island>>

NextCodec ==
  \/ \E m \in Message : Encode(m)
  \/ Decode

\* every message is encoded and the bytes are decoded
SpecCodec == Init /\ [][NextCodec]_vars

(* ---- the launcher: actions ------------------------------------------------- *)
\* Island::create
IslandCreate(order) ==
  /\ island = NoIsland
  /\ island' = IslandCreated(order)
  /\ UNCHANGED <<runtime, api>>

\* State::start calls process.start() on the created handle
StartSend ==
  /\ island.stage = "created" /\ island.call = "idle" /\ island.handle = "Created"
  /\ island' = start_send(island)
  /\ UNCHANGED <<runtime, api>>

\* the runtime's recv of the checkpoint is ready
StartWait ==
  /\ island.stage = "created" /\ island.call = "start_wait"
  /\ checkpoint_ready(island, "runtime")
  /\ island' = start_wait(island)
  /\ UNCHANGED <<runtime, api>>

\* init: checkpoint.wait(Start::Start); a child that reads another value
\* panics and exits
ChildWait ==
  /\ island.stage = "created" /\ island.child = "init" /\ ~island.received
  /\ island.order = "start_first" \/ island.sent
  /\ checkpoint_ready(island, "init")
  /\ \E i1 \in {checkpoint_wait(island, "init", "Start")} :
       island' = IF i1.invalid THEN [i1 EXCEPT !.child = "zombie", !.ws = Exited(101)]
                 ELSE [i1 EXCEPT !.received = TRUE]
  /\ UNCHANGED <<runtime, api>>

\* init: checkpoint.send(Start::Started)
ChildSend ==
  /\ island.stage = "created" /\ island.child = "init" /\ ~island.sent
  /\ island.order = "ack_first" \/ island.received
  /\ island' = [checkpoint_send(island, "init", "Started") EXCEPT !.sent = TRUE]
  /\ UNCHANGED <<runtime, api>>

\* init: execve of the container's init
Execve ==
  /\ island.stage = "created" /\ island.child = "init"
  /\ island.received /\ island.sent
  /\ island' = [island EXCEPT !.child = "running"]
  /\ UNCHANGED <<runtime, api>>

\* the container's process exits on its own
IslandChildExit ==
  /\ island.stage = "created" /\ island.child = "running"
  /\ island' = [island EXCEPT !.child = "zombie", !.ws = Exited(0)]
  /\ UNCHANGED <<runtime, api>>

\* the child dies of the signal it was sent last
ChildKilled ==
  /\ island.stage = "created" /\ island.child \in {"init", "running"}
  /\ island.signals # <<>>
  /\ island' = [island EXCEPT !.child = "zombie",
                              !.ws = Signaled(island.signals[Len(island.signals)])]
  /\ UNCHANGED <<runtime, api>>

\* wait task: waitpid returns
TaskWaitpid ==
  /\ island.stage = "created" /\ island.child = "zombie" /\ island.task = "waitpid"
  /\ island' = task_waitpid(island)
  /\ UNCHANGED <<runtime, api>>

\* wait task: try_send returns Ok or Closed
TaskSend(closed) ==
  /\ island.stage = "created" /\ island.task = "sending"
  /\ island' = task_send(island, closed)
  /\ UNCHANGED <<runtime, api>>

\* Request::Stop
StopCall ==
  /\ island.stage = "created" /\ island.call = "idle"
  /\ island.handle # "Created"
  /\ island' = stop_call(island)
  /\ UNCHANGED <<runtime, api>>

\* time::timeout(timeout, &mut exit_status) elapses with exit_status pending
StopTimeout ==
  /\ island.stage = "created" /\ island.call = "term_wait"
  /\ island.task # "done"
  /\ island' = [island EXCEPT !.call = "timed_out", !.timed_out = TRUE]
  /\ UNCHANGED <<runtime, api>>

\* the SIGKILL after the timeout
StopSigkill ==
  /\ island.stage = "created" /\ island.call = "timed_out"
  /\ island' = stop_sigkill(island)
  /\ UNCHANGED <<runtime, api>>

\* the awaits of stop
StopAwaits == {"term_wait", "kill_wait", "esrch_wait"}

\* exit_status resolves: the wait task has returned
StopReturn ==
  /\ island.stage = "created" /\ island.call \in StopAwaits
  /\ island.task = "done"
  /\ island' = stop_return(island)
  /\ UNCHANGED <<runtime, api>>

\* the caller drops the future of stop
StopDropped ==
  /\ island.stage = "created" /\ island.call \in StopAwaits
  /\ island' = stop_dropped(island)
  /\ UNCHANGED <<runtime, api>>

\* Event::Exit of the child reaches the main loop
IslandOnExit ==
  /\ island.stage = "created" /\ island.call = "idle"
  /\ island.published # <<>>
  /\ island' = island_on_exit(island)
  /\ UNCHANGED <<runtime, api>>

\* the steps of the checkpoint handshake
Handshake == StartSend \/ StartWait \/ ChildWait \/ ChildSend \/ Execve

NextIsland ==
  \/ \E order \in Orders2 : IslandCreate(order)
  \/ StartSend
  \/ StartWait
  \/ ChildWait
  \/ ChildSend
  \/ Execve
  \/ IslandChildExit
  \/ ChildKilled
  \/ TaskWaitpid
  \/ \E closed \in BOOLEAN : TaskSend(closed)
  \/ StopCall
  \/ StopTimeout
  \/ StopSigkill
  \/ StopReturn
  \/ StopDropped
  \/ IslandOnExit

\* one container process from Island::create to the end of its wait task
SpecIsland == Init /\ [][NextIsland]_vars

\* the runtime and the child are scheduled: each takes the next step of its
\* half of the handshake when it can
SpecHandshake == Init /\ [][NextIsland]_vars /\ WF_vars(Handshake)

TypeOK ==
  /\ engine \in {"running", "panicked", "blocked", "error", "stopped"}
  /\ \A c \in Container : run_dir[c] \in 0..(MaxStray + 1)
  /\ DOMAIN containers \subseteq Container
  /\ Len(events) <= QueueCap
  /\ next_pid \in 1..(MaxPid + 1)


(* ---- properties ----------------------------------------------------------- *)
\* the container has a process context in the container map
Running(c) == c \in DOMAIN containers /\ containers[c].process # {}

\* the container is named as a resource by a container with a process context
Referenced(c) == \E a \in Container : Running(a) /\ c \in Manifest[a].mounts

\* this step is the handler op run for arg
Handles(op, arg) == last = Idle /\ last'.op = op /\ last'.arg = arg

\* C1: at any time at most one child process that has not exited exists per
\* identity
C1_OneProcessPerIdentity ==
  \A c \in Container : Cardinality({p \in alive : p[1] = c}) <= 1

\* C2: no step removes or replaces the map entry (root directory and block
\* device) of an identity that has a process context whose child is alive
C2_RunningEntryKept ==
  [][\A c \in Container :
       (Running(c) /\ \E p \in containers[c].process : p.pid \in alive)
         => /\ c \in DOMAIN containers'
            /\ containers'[c].device = containers[c].device]_vars

\* C3: no container whose manifest has no init has a process context
C3_NoResourceProcess ==
  \A c \in DOMAIN containers : ~Manifest[c].init => containers[c].process = {}

\* a start of the mounted resource container was rejected
C3_Witness ==
  /\ last.op = "start" /\ last.arg = "res"
  /\ last.res = "StartContainerResource"
  /\ "res" \in DOMAIN containers

\* C4: start of an installed resource container answers
\* StartContainerResource, mounted or not, and creates no process
C4_StartResourceRejected ==
  [][\A c \in Container :
       (Handles("start", c) /\ ~Manifest[c].init /\ npk(State, c) # {})
         => /\ last'.res = "StartContainerResource"
            /\ alive' = alive
            /\ engine' = "running"]_vars

\* C5: every resource named by a container with a process context is in the
\* container map, and umount or uninstall of such a resource answers
\* UmountBusy and changes neither the map nor the repositories
C5_ResourcesOfRunningMounted ==
  [][/\ \A a \in Container :
          (a \in DOMAIN containers' /\ containers'[a].process # {})
            => Manifest[a].mounts \subseteq DOMAIN containers'
     /\ \A r \in Container :
          (Referenced(r) /\ (Handles("umount", r) \/ Handles("uninstall", r)))
            => /\ last'.res = "UmountBusy"
               /\ containers' = containers
               /\ repositories' = repositories]_vars

\* umount or uninstall of the resource of the running application was refused
C5_Witness ==
  /\ last.op \in {"umount", "uninstall"}
  /\ last.arg = "res"
  /\ last.res = "UmountBusy"
  /\ Running("app")
  /\ "res" \in DOMAIN containers

\* C6: umount answers UmountBusy for a started container and for a resource
\* named by a started container, and in every other case answers Ok and
\* the container is not in the map afterwards
C6_UmountBusyOrOk ==
  [][\A c \in Container :
       Handles("umount", c)
         => IF Running(c) \/ Referenced(c)
            THEN last'.res = "UmountBusy"
            ELSE last'.res = "Ok" /\ c \notin DOMAIN containers']_vars

\* C7: uninstall of a started container answers UmountBusy and changes
\* nothing; uninstall of a container that is mounted, not started and not a
\* resource in use, answers Ok once the mount manager has unmounted it, and
\* the container is then neither in the map nor in any repository
C7_UninstallRunningOrMounted ==
  [][\A c \in Container :
       Handles("uninstall", c)
         => /\ Running(c)
                 => /\ last'.res = "UmountBusy"
                    /\ repositories' = repositories
                    /\ containers' = containers
                    /\ alive' = alive
                    /\ run_dir' = run_dir
            /\ (c \in DOMAIN containers /\ ~Running(c) /\ ~Referenced(c)
                  /\ last'.fail # "umount")
                 => /\ last'.res = "Ok"
                    /\ c \notin DOMAIN containers'
                    /\ run_dir'[c] = run_dir[c] - 1
                    /\ \A id \in RepositoryId : c \notin repositories'[id]]_vars

\* the application was started, stopped and then uninstalled while mounted
C7_Witness ==
  /\ last.op = "uninstall" /\ last.arg = "app" /\ last.res = "Ok"
  /\ "app" \in last.mounted
  /\ next_pid > 1
  /\ "app" \notin DOMAIN containers

\* C8: install of an identity that some repository holds answers
\* InstallDuplicate, and no identity is held by two repositories
C8_UniqueAcrossRepositories ==
  [][/\ \A id \in RepositoryId, c \in Container :
          (Handles("install", <<id, c>>) /\ npk(State, c) # {})
            => last'.res = "InstallDuplicate" /\ repositories' = repositories
     /\ \A c \in Container :
          Cardinality({id \in RepositoryId : c \in repositories'[id]}) <= 1]_vars

\* C9: after a start in which a mount failed the mounted containers are
\* those mounted before the call
C9_MountsRolledBack ==
  [][\A c \in Container :
       (Handles("start", c) /\ last'.fail = "mount")
         => /\ last'.res = "Mount"
            /\ DOMAIN containers' = DOMAIN containers
            /\ run_dir' = run_dir]_vars

\* the post-mount stages of start of the claim, and those that return an error
PostMountStages == {"create", "debug", "cgroup", "start"}
ReturningStages == {"create", "debug", "start"}

\* what C10 says of a start whose stage f failed
PostMountFailure(c, f) ==
  (Handles("start", c) /\ last'.fail = f)
    => /\ last'.res = "Err"
       /\ engine' = "running"
       /\ cgroups' = cgroups
       /\ debugs' = debugs
       /\ c \in DOMAIN containers'
       /\ containers'[c].process = {}
       /\ DOMAIN containers \subseteq DOMAIN containers'
       /\ Manifest[c].mounts \subseteq DOMAIN containers'

Installed(c) == \E id \in RepositoryId : c \in repositories[id]

\* the handler of this step changes nothing but its response
EngineUnchanged ==
  UNCHANGED <<engine, repositories, containers, run_dir, alive, reaped, cgroups,
              debugs, events, next_pid>>

\* C11: a start in which Process::start fails, as for an init that cannot be
\* executed inside the root filesystem, answers StartContainerFailed and the
\* container is not mounted afterwards
C11_StartFailedNotMounted ==
  [][\A c \in Container :
       (Handles("start", c) /\ last'.fail = "start")
         => /\ last'.res = "StartContainerFailed"
            /\ c \notin DOMAIN containers']_vars

\* C12: start of an installed application that names a resource held by no
\* repository answers StartContainerMissingResource and mounts nothing: the
\* container map and the mounts are those before the call
C12_MissingResource ==
  [][\A c \in Container :
       (Handles("start", c) /\ Installed(c)
          /\ \E r \in Manifest[c].mounts : ~Installed(r))
         => /\ last'.res = "StartContainerMissingResource"
            /\ last'.notes = <<>>
            /\ EngineUnchanged]_vars

\* start of the application whose resource is not installed was refused and
\* the application is not mounted
C12_Witness ==
  /\ last.op = "start" /\ last.arg = "app"
  /\ last.res = "StartContainerMissingResource"
  /\ Installed("app") /\ ~Installed("res")
  /\ "app" \notin DOMAIN containers

\* C13: start of an identity held by no repository answers InvalidContainer,
\* mounts nothing, creates no process and emits no notification
C13_InvalidContainer ==
  [][\A c \in Container :
       (Handles("start", c) /\ ~Installed(c))
         => /\ last'.res = "InvalidContainer"
            /\ last'.notes = <<>>
            /\ EngineUnchanged]_vars

\* start of the application that is not installed was refused while the
\* resource container is installed and mounted
C13_Witness ==
  /\ last.op = "start" /\ last.arg = "app"
  /\ last.res = "InvalidContainer"
  /\ ~Installed("app")
  /\ "res" \in DOMAIN containers

\* C14: a start that answers Ok has emitted Started(c) once, with the process
\* context of c in the container map; a start that does not answer Ok has
\* emitted nothing, and a start whose notification waits for the event
\* channel has already recorded the process context
C14_StartedOnce ==
  [][\A c \in Container :
       Handles("start", c)
         => /\ last'.res = "Ok"
                 => /\ last'.notes = <<Note("Started", c)>>
                    /\ events' = Append(events, [k |-> "Notification"])
                    /\ c \in DOMAIN containers'
                    /\ containers'[c].process # {}
            /\ last'.res # "Ok"
                 => /\ last'.notes = <<>>
                    /\ events' = events
            /\ engine' = "blocked"
                 => /\ c \in DOMAIN containers'
                    /\ containers'[c].process # {}]_vars

\* the application was started and its Started notification is in the channel
C14_Witness ==
  /\ last.op = "start" /\ last.arg = "app" /\ last.res = "Ok"
  /\ last.notes = <<Note("Started", "app")>>
  /\ Running("app")

\* the child of the process context of the container has not exited
HasLiveProcess(c) == Running(c) /\ \E p \in containers[c].process : p.pid \in alive

\* what C15 says of a stop of a container
StopRefused(c) ==
  /\ last'.res = "StopContainerNotStarted"
  /\ last'.notes = <<>>
  /\ EngineUnchanged

\* C15 as claimed: stop of an identity without a running process, also one
\* whose process has exited, answers StopContainerNotStarted, changes nothing
\* and emits nothing
C15_Original ==
  [][\A c \in Container :
       (Handles("stop", c) /\ ~HasLiveProcess(c)) => StopRefused(c)]_vars

\* C15 amended: this holds for an identity without a process context in the
\* container map (not mounted, never started, stopped, or exited with its
\* Exit event handled)
C15_StopNotStarted ==
  [][\A c \in Container :
       (Handles("stop", c) /\ ~Running(c)) => StopRefused(c)]_vars

\* stop of the mounted application was refused after one of its processes
\* had been created and its process context had been removed
C15_Witness ==
  /\ last.op = "stop" /\ last.arg = "app"
  /\ last.res = "StopContainerNotStarted"
  /\ "app" \in DOMAIN containers
  /\ next_pid > 1

\* C16: a stop of a started container that answers Ok leaves the container
\* and its resources mounted with the entry it had, without a process
\* context; the child has exited, its cgroup and debug handles are destroyed
\* and Stopped(c) is the one notification of the call
C16_StartStopIsMounted ==
  [][\A c \in Container :
       (Handles("stop", c) /\ Running(c) /\ last'.res = "Ok")
         => LET ctx == CHOOSE p \in containers[c].process : TRUE
            IN /\ containers' = [containers EXCEPT ![c].process = {}]
               /\ Manifest[c].mounts \subseteq DOMAIN containers'
               /\ run_dir' = run_dir
               /\ repositories' = repositories
               /\ ctx.pid \notin alive'
               /\ \A w \in reaped' : w.pid # ctx.pid
               /\ ctx.pid \notin cgroups' \cup debugs'
               /\ last'.notes = <<Note("Stopped", c)>>]_vars

\* the started application, which has a cgroup, was stopped and is mounted
\* with its resource
C16_Witness ==
  /\ last.op = "stop" /\ last.arg = "app" /\ last.res = "Ok"
  /\ "app" \in last.started
  /\ {"app", "res"} \subseteq DOMAIN containers
  /\ ~Running("app")
  /\ cgroups = {}

\* C17: in every state in which the engine waits for a request and an
\* installed container is not mounted, a mount request for it that succeeds,
\* followed by umount, gives back the engine state
C17_MountUmountRoundTrip ==
  \A c \in Container :
    (AtRecv /\ Installed(c) /\ c \notin DOMAIN containers)
      => LET m == bulk_mount(State, {c}, {c})
             u == umount(m.s, c, FALSE)
         IN /\ m.res = "Mount"
            /\ c \in DOMAIN m.s.containers
            /\ u.res = "Ok"
            /\ c \notin DOMAIN u.s.containers
            /\ u.s = State

\* the resource container was mounted by a request and then unmounted
C17_Witness ==
  /\ last.op = "umount" /\ last.arg = "res" /\ last.res = "Ok"
  /\ "res" \in last.mounted
  /\ Installed("res")
  /\ "res" \notin DOMAIN containers
  /\ run_dir["res"] = 0
  /\ next_pid = 1

\* C18: the response to a mount request has one entry for each requested
\* container, which tells whether the mount of that container succeeded
C18_MountResponsePerIdentity ==
  [][\A req \in SUBSET Container :
       (Handles("mount", req) /\ last'.res = "Mount")
         => last'.entries =
              {<<c, IF run_dir'[c] > run_dir[c] THEN "ok" ELSE "err">> : c \in req}]_vars

\* C19: a mount request for a container that is mounted keeps its entry of
\* the container map, with block device and process context, and mounts
\* nothing for it
C19_MountIdempotent ==
  [][\A req \in SUBSET Container : \A c \in req :
       (Handles("mount", req) /\ c \in DOMAIN containers)
         => /\ c \in DOMAIN containers'
            /\ containers'[c] = containers[c]
            /\ run_dir'[c] = run_dir[c]]_vars

\* C20: in a mount request every container whose mount succeeds is in the
\* container map afterwards, whatever happens to the others, and a container
\* that was not mounted and whose mount fails is not
C20_BulkMountIsolation ==
  [][\A req \in SUBSET Container : \A c \in req :
       Handles("mount", req)
         => /\ run_dir'[c] > run_dir[c] => c \in DOMAIN containers'
            /\ (run_dir'[c] = run_dir[c] /\ c \notin DOMAIN containers)
                 => c \notin DOMAIN containers']_vars

\* this step is the handler op
HandlesOp(op) == last = Idle /\ last'.op = op

\* the process context of a container that has one
Context(c) == CHOOSE p \in containers[c].process : TRUE

\* C23: an Exit event for a container with a process context removes the
\* context and destroys its cgroup and debug handles, leaves the container
\* mounted, creates no process and emits the one notification Exit with the
\* container and the status of the event; an Exit event for a container
\* without a process context changes nothing and emits nothing
C23_ExitEvent ==
  [][\A c \in Container :
       (Handles("on_exit", c) /\ engine' = "running")
         => IF Running(c)
            THEN /\ containers' = [containers EXCEPT ![c].process = {}]
                 /\ Context(c).pid \notin cgroups' \cup debugs'
                 /\ run_dir' = run_dir
                 /\ alive' = alive /\ next_pid' = next_pid
                 /\ last'.notes = <<ExitNote(c, Head(events).status)>>
                 /\ events' = Append(Tail(events), [k |-> "Notification"])
            ELSE /\ containers' = containers
                 /\ run_dir' = run_dir
                 /\ alive' = alive /\ next_pid' = next_pid
                 /\ cgroups' = cgroups /\ debugs' = debugs
                 /\ last'.notes = <<>>
                 /\ events' = Tail(events)]_vars

\* the Exit event of the application that exited on its own was handled and
\* the application is mounted without a process context
C23_Witness ==
  /\ last.op = "on_exit" /\ last.arg = "app"
  /\ last.notes = <<ExitNote("app", ExitStatus("Exit", 0))>>
  /\ "app" \in last.started
  /\ "app" \in DOMAIN containers /\ ~Running("app")
  /\ cgroups = {} /\ debugs = {}

\* C24: an Oom event for a container with a process context emits
\* OutOfMemory(c) and then stops the container: the notifications of the
\* handler are OutOfMemory(c), Stopped(c) in this order and the container has
\* no process context afterwards; an Oom event for a container without a
\* process context changes nothing and emits nothing
C24_OomEvent ==
  [][\A c \in Container :
       (Handles("on_oom", c) /\ engine' = "running")
         => IF Running(c)
            THEN /\ last'.notes = <<Note("OutOfMemory", c), Note("Stopped", c)>>
                 /\ containers' = [containers EXCEPT ![c].process = {}]
                 /\ Context(c).pid \notin alive'
                 /\ Context(c).pid \notin cgroups' \cup debugs'
            ELSE /\ containers' = containers
                 /\ run_dir' = run_dir
                 /\ alive' = alive /\ next_pid' = next_pid
                 /\ cgroups' = cgroups /\ debugs' = debugs
                 /\ last'.notes = <<>>
                 /\ events' = Tail(events)]_vars

\* the Oom event of the running application was handled: OutOfMemory and
\* Stopped were emitted and the application has no process context
C24_Witness ==
  /\ last.op = "on_oom" /\ last.arg = "app"
  /\ last.notes = <<Note("OutOfMemory", "app"), Note("Stopped", "app")>>
  /\ "app" \in last.started
  /\ "app" \in DOMAIN containers /\ ~Running("app")

\* C30: start takes a Created handle to Started, stop takes a Created or
\* Started handle to Stopped, every other call of start, stop or pid is
\* unreachable; the handle of every process context is Started and no
\* handler calls start, stop or pid on a handle that does not accept it
C30_HandleStates ==
  /\ \A h \in IslandProcess :
       /\ island_start(h) = (IF h = "Created" THEN "Started" ELSE Unreachable)
       /\ island_stop(h) = (IF h = "Stopped" THEN Unreachable ELSE "Stopped")
       /\ island_pid(h) = (IF h = "Stopped" THEN Unreachable ELSE h)
  /\ \A c \in DOMAIN containers : \A p \in containers[c].process : p.handle = "Started"
  /\ last.fail # Unreachable

\* the application was started and stopped: its handle went from Created to
\* Started and to Stopped
C30_Witness ==
  /\ last.op = "stop" /\ last.arg = "app" /\ last.res = "Ok"
  /\ "app" \in last.started
  /\ alive = {}

\* the status C27 gives for what waitpid reports
DecodedStatus(ws) ==
  IF ws.kind = "Exited"
  THEN IF ws.n < SIGNAL_OFFSET THEN ExitStatus("Exit", ws.n)
       ELSE ExitStatus("Signaled", ws.n - SIGNAL_OFFSET)
  ELSE ExitStatus("Signaled", ws.n)

\* C27: the wait task of a child that ends with exit code c < 128 holds or
\* publishes Exit(c), with exit code c >= 128 Signaled(c - 128), and with a
\* death by signal s Signaled(s)
C27_ExitDecoding ==
  [][\A pid \in Pids, ws \in WaitStatus :
       ChildExit(pid, ws)
         => \/ events' = Append(events, ExitEvent(pid[1], DecodedStatus(ws)))
            \/ reaped' = reaped \cup {[pid |-> pid, status |-> DecodedStatus(ws)]}]_vars

\* C21: a shutdown that returns Ok leaves no container running and no
\* container mounted: the container map is empty, no child is alive and
\* nothing is mounted under run_dir
C21_ShutdownStopsAndUnmounts ==
  [][(HandlesOp("shutdown") /\ last'.res = "Ok")
       => /\ containers' = <<>>
          /\ alive' = {}
          /\ \A c \in Container : run_dir'[c] = 0]_vars

\* C22: in a shutdown in which the stop or the umount of some containers
\* fails, every other container of the container map is stopped and unmounted
C22_ShutdownBestEffort ==
  [][HandlesOp("shutdown")
       => \A c \in DOMAIN containers :
            c \notin (last'.arg[1] \cup last'.arg[2])
              => c \notin DOMAIN containers']_vars

\* the handlers of requests
RequestOps == {"install", "uninstall", "mount", "umount", "start", "stop",
               "shutdown_request"}

\* C25: the handler of every request sends one response to the session and
\* returns to the main loop without an error
C25_OneResponsePerRequest ==
  [][(last = Idle /\ last'.op \in RequestOps)
       => /\ last'.res # "none"
          /\ last'.delivered
          /\ engine' = "running"]_vars

\* C29: a request of a session that has gone away, whose handler has a
\* response, has its effect on the engine state (the installed, unmounted,
\* mounted, started or stopped container is so afterwards), its response is
\* not delivered, and the engine goes on with the next event
C29_ClosedReplyChannel ==
  [][(last = Idle /\ last'.op \in RequestOps /\ last'.res # "none")
       => /\ ~last'.delivered
          /\ engine' = "running"
          /\ (last'.res = "Ok" \/ (last'.op = "mount" /\ last'.res = "Mount"))
               => LET c == last'.arg
                  IN /\ last'.op = "install" => c[2] \in repositories'[c[1]]
                     /\ last'.op = "uninstall"
                          => /\ \A id \in RepositoryId : c \notin repositories'[id]
                             /\ c \notin DOMAIN containers'
                     /\ last'.op = "umount" => c \notin DOMAIN containers'
                     /\ last'.op = "start"
                          => c \in DOMAIN containers' /\ containers'[c].process # {}
                     /\ last'.op = "stop"
                          => c \in DOMAIN containers' /\ containers'[c].process = {}
                     /\ last'.op = "mount"
                          => \A x \in c : run_dir'[x] > run_dir[x] => x \in DOMAIN containers']_vars

\* the requests to start and to stop the application came from sessions
\* that had gone away: the application was started and stopped
C29_Witness ==
  /\ last.op = "stop" /\ last.arg = "app" /\ last.res = "Ok"
  /\ ~last.delivered
  /\ "app" \in last.started
  /\ "app" \in DOMAIN containers /\ ~Running("app")

\* requests that were sent and whose response the connection task has not read
Outstanding(cl) ==
  Len(cl.sink) + Cardinality({i \in DOMAIN cl.stream : cl.stream[i].payload = "Response"})

\* this step is the request arm taking a request while a response is pending
TakesWhilePending ==
  /\ client.task = "running"
  /\ client.response_tx # {}
  /\ client'.task = "running"
  /\ Len(client'.request_rx) < Len(client.request_rx)

\* this step is the message arm reading a response while a request is pending
ReadsResponse ==
  /\ client.task = "running"
  /\ client.response_tx # {}
  /\ client.stream # <<>> /\ Head(client.stream).payload = "Response"
  /\ Len(client'.stream) < Len(client.stream)

\* C26 as stated: at most one request is outstanding; a caller that made its
\* call while a response was pending has not had its request sent, and has
\* PendingRequest as the result of the call while the task runs; a caller
\* with a response has the response to its own request
C26_Original ==
  client # NotConnected =>
  /\ Outstanding(client) <= 1
  /\ \A c \in Callers :
       /\ client.callers[c].racing
            => /\ client.callers[c].status # "waiting"
               /\ (client.task = "running" /\ client.callers[c].status = "idle")
                    => client.callers[c].result = Err("PendingRequest")
       /\ client.callers[c].result.r = "Ok" => client.callers[c].result.of = c

\* C26 (amended): at most one request is outstanding; a request the
\* connection task takes from its request channel while a response is pending
\* is answered with PendingRequest and is not sent, the pending reply channel
\* is kept, and the response that arrives is given to the caller of the
\* request it answers
C26_PendingRequest ==
  [][client # NotConnected =>
     /\ Outstanding(client') <= 1
     /\ TakesWhilePending
          => LET c == Head(client.request_rx).caller
             IN /\ client'.callers[c].status = "idle"
                /\ client'.callers[c].result = Err("PendingRequest")
                /\ client'.sink = client.sink
                /\ client'.response_tx = client.response_tx
     /\ ReadsResponse
          => LET c == Head(client.stream).of
             IN /\ client.response_tx = {c}
                /\ client'.callers[c].status = "idle"
                /\ client'.callers[c].result = Ok(c)
                /\ client'.response_tx = {}]_vars

\* caller 2 was answered with PendingRequest while the request of caller 1
\* was pending, and caller 1 has the response to its request
C26_Witness ==
  /\ client # NotConnected
  /\ client.callers[2].racing
  /\ client.callers[2].result = Err("PendingRequest")
  /\ client.callers[1].result = Ok(1)
  /\ client.task = "running"

\* C28: the bytes of an encoded message are one line that ends with the only
\* line feed; decoding them yields the message without an error and leaves
\* the buffer empty
C28_CodecRoundTrip ==
  /\ codec.stage = "encoded"
       => /\ codec.src # <<>>
          /\ \A i \in DOMAIN codec.src : codec.src[i] = "LF" <=> i = Len(codec.src)
  /\ codec.stage = "decoded"
       => /\ codec.item = {codec.message}
          /\ ~codec.err
          /\ codec.src = <<>>

\* a message whose string has a line feed and a quotation mark was encoded
\* and decoded
C28_Witness ==
  /\ codec.stage = "decoded"
  /\ codec.message.text = <<"LF", "QUOTE">>
  /\ codec.item = {codec.message}

\* C34: every cgroup created for a process is destroyed when a step takes the
\* process context out of the container map or replaces it (stop, Exit event,
\* OOM stop, bulk mount, shutdown), also when destroying the debug handle fails
C34_CgroupsDestroyed ==
  [][\A c \in Container :
       (Running(c) /\ (~Running(c)' \/ Context(c)' # Context(c)))
         => Context(c).pid \notin cgroups']_vars

\* C35: while the engine runs the directories mounted under run_dir are the
\* entries of the container map: every entry has its one mount and no mount
\* is without an entry or stacked on another mount of the same container
C35_MountsAreEntries ==
  engine = "running"
    => \A c \in Container : run_dir[c] = (IF c \in DOMAIN containers THEN 1 ELSE 0)

\* C37: on_exit takes a process context out of the map only if the process of
\* that context has exited: an Exit event of an earlier process of the
\* container is not applied to a later process that is still alive
C37_ExitOfOwnProcess ==
  [][\A c \in Container :
       (Handles("on_exit", c) /\ Running(c) /\ ~Running(c)')
         => Context(c).pid \notin alive]_vars

\* C40: when start returns an error after the launcher has created the child,
\* the child is not left alive
C40_FailedStartStopsChild ==
  [][\A c \in Container :
       (Handles("start", c) /\ last'.res = "Err" /\ next_pid' # next_pid)
         => <<c, next_pid>> \notin alive']_vars

\* a child has been created
HasIsland == island.stage = "created"

\* C31: stop sends SIGTERM to the process group first; SIGKILL is sent only
\* after the timeout has elapsed with the exit not observed since the
\* SIGTERM, and then the exit is awaited without another deadline; when the
\* SIGTERM fails with ESRCH no signal is sent and the status of the wait task
\* is returned as it is
C31_StopProtocol ==
  [][(HasIsland /\ HasIsland')
       => /\ island'.signals \in {<<>>, <<SIGTERM>>, <<SIGTERM, SIGKILL>>}
          /\ (island'.signals = <<SIGTERM, SIGKILL>> /\ island.signals # island'.signals)
               => /\ island.call = "timed_out" /\ island.timed_out
                  /\ island.signals = <<SIGTERM>>
                  /\ island'.call = "kill_wait"
          /\ (island'.call = "timed_out" /\ island.call # "timed_out")
               => island.call = "term_wait" /\ island.task # "done"
          /\ island.call = "kill_wait"
               => \/ island' = stop_return(island) /\ island.task = "done"
                  \/ island' = stop_dropped(island)
                  \/ island'.call = "kill_wait"
          /\ island'.esrch => island'.signals = <<>>
          /\ (island.call = "esrch_wait" /\ island'.call # "esrch_wait" /\ ~island'.dropped)
               => /\ island.task = "done"
                  /\ island'.result = StopResult("Ok", island.status)]_vars

\* C31 witness: a stop has returned the status of a child that was sent
\* SIGTERM and, after the timeout, SIGKILL, and died of the SIGKILL
C31_Witness ==
  /\ HasIsland
  /\ island.signals = <<SIGTERM, SIGKILL>>
  /\ island.result = StopResult("Ok", ExitStatus("Signaled", SIGKILL))

\* C32: the child does not execve before the runtime has sent Start, the
\* handle is Started only after the runtime has received the Started of the
\* child, every message is received by the end opposite to its sender, and a
\* start that has sent Start returns with the handle Started
C32_Handshake ==
  /\ [](HasIsland
          => /\ island.child # "init" => island.start_sent
             /\ island.handle = "Started"
                  => [m |-> "Started", from |-> "init", by |-> "runtime"] \in island.got
             /\ \A r \in island.got : r.from # r.by
             /\ ~island.invalid)
  /\ (HasIsland /\ island.call = "start_wait")
       ~> (HasIsland /\ island.call = "idle" /\ island.handle = "Started")

\* C32 witness: the handshake is over: the handle is Started and the child
\* has gone on to execve
C32_Witness ==
  /\ HasIsland
  /\ island.handle = "Started"
  /\ island.child = "running"

\* C36: after a stop that was dropped, a later stop of the same process
\* returns the exit status of the child, and the Exit event of the wait task
\* makes the engine report that status
C36_DroppedStopKeepsExit ==
  [][(HasIsland /\ island.dropped /\ island.call = "idle")
       => /\ island'.result # island.result => island'.result.kind = "Ok"
          /\ Len(island'.published) < Len(island.published)
               => /\ Len(island'.notes) = Len(island.notes) + 1
                  /\ island'.notes[Len(island'.notes)]
                       = ExitNote("app", island.status)]_vars

\* C38: stop returns an exit status and not an error, in every interleaving
\* of the child's exit with the steps of stop: the engine's stop does not
\* abort
C38_StopReturnsStatus ==
  HasIsland
    => /\ island.result.kind \in {"none", "Ok", "StopContainerNotStarted"}
       /\ (island.start_sent /\ island.call = "panicked") => island.invalid

\* C33: a wait task that has reaped its child eventually ends with its Exit
\* event sent (or the runtime has ended), also when the channel is full and
\* the engine awaits the task inside stop
C33_WaitTaskTerminates ==
  [](\A pid \in Pids :
       (engine = "running" /\ reaped_of(State, pid) # {})
         => <>(reaped_of(State, pid) = {} \/ engine \notin {"running", "blocked"}))

\* C39: an operation of the engine that waits for a free slot of the event
\* channel eventually goes on and returns
C39_NotificationReturns ==
  [](engine = "blocked" => <>(engine # "blocked"))

====
